---- MODULE Spec2Model ----
(***************************************************************************)
(* Model of galaxy_db.py: the adaptive commit tracker, the two streaming   *)
(* ingestion operations over the sqlite store, the radius / batch lookups  *)
(* and the colony candidate search.                                        *)
(*                                                                         *)
(* Conventions.  Wall-clock time (time.time()) is an integer number of     *)
(* ticks.  Rates (records per tick) are exact rationals <<n, d>>, d > 0.   *)
(* Coordinates are integers (light years); a distance is carried by its    *)
(* square, which orders and identifies distances exactly as sqrt() does.   *)
(***************************************************************************)
EXTENDS Integers, Sequences, FiniteSets, TLC

\* ------------------------------------------------------------------ bounds
MaxCalls == 6
MaxStep == 2
TimeInterval == 2

\* ------------------------------------------------------- program constants
GRID == 25
SmoothNum == 3
SmoothDen == 10

\* Python's None where an object (a record here) is expected, and where a
\* float is expected
None == [none |-> TRUE]
NoRate == << >>

VARIABLES
  tracker,      \* the AdaptiveUpdateTracker object (its fields), or None
  now,          \* the wall clock, in ticks since the running operation started
  returns,      \* what each should_commit() call returned, in call order:
                \* "no" (False), "count" (True, batch path), "time" (True, time path)
  systems,          \* table systems as the connection sees it: id64 -> row or None
  population_data,  \* table population_data as the connection sees it
  committed,        \* the two tables as of the last COMMIT (the durable content)
  in_txn,           \* a transaction is open on the connection
  db_log,           \* the statements the running operation issued, in order
  pc,               \* "idle", "running", "done" (returned), "aborted" (raised),
                    \* "scanned" (colony search before its re-read),
                    \* "verifying" (colony search between its two re-reads),
                    \* "constructed" (restored store handed to the command)
  kind,             \* the running operation: "systems" or "population"
  stream,           \* the items of the snapshot file being ingested
  pos,              \* number of items consumed from the stream
  stderr,           \* number of "Error processing record" lines printed
  raised,           \* the exception that ended the operation, "" when none
  before,           \* tables as they were when a re-ingestion of the same
                    \* snapshot started, None otherwise
  args,             \* the arguments of the running query command, None otherwise
  result,           \* what the running query returned, None otherwise
  colony            \* the locals of find_colony_candidates, None otherwise

vars == <<tracker, now, returns, systems, population_data, committed, in_txn,
          db_log, pc, kind, stream, pos, stderr, raised, before, args, result, colony>>
queryVars == <<args, result, colony>>
trackerVars == <<tracker, now, returns>>
storeVars == <<systems, population_data, committed, in_txn, db_log>>
ingestVars == <<pc, kind, stream, pos, stderr, raised, before>>

\* ------------------------------------------------------------- arithmetic
RECURSIVE GCD(_, _)
GCD(a, b) == IF b = 0 THEN a ELSE GCD(b, a % b)

Abs(a) == IF a < 0 THEN -a ELSE a

\* a rational in lowest terms
Rat(n, d) == LET g == GCD(Abs(n), d) IN <<n \div g, d \div g>>

RatAdd(p, q) == Rat(p[1] * q[2] + q[1] * p[2], p[2] * q[2])
RatMul(p, q) == Rat(p[1] * q[1], p[2] * q[2])
RatLess(p, q) == p[1] * q[2] < q[1] * p[2]
RatOfInt(i) == <<i, 1>>

\* Python min(a, b) / max(a, b): the first argument unless the second is
\* strictly smaller / greater
PyMin(p, q) == IF RatLess(q, p) THEN q ELSE p
PyMax(p, q) == IF RatLess(p, q) THEN q ELSE p

\* Python int(round(v)) of a non-negative value: round half to even
PyRound(p) ==
  LET q == p[1] \div p[2]
      r == p[1] % p[2]
  IN  IF 2 * r < p[2] THEN q
      ELSE IF 2 * r > p[2] THEN q + 1
      ELSE IF q % 2 = 0 THEN q ELSE q + 1

\* --------------------------------------------------- AdaptiveUpdateTracker
NewTracker(batch, interval, initial_tcb, min_tcb, max_tcb, t) ==
  [ batch_size               |-> batch,
    time_interval            |-> interval,
    time_check_batch         |-> initial_tcb,
    min_time_check_batch     |-> min_tcb,
    max_time_check_batch     |-> max_tcb,
    start_time               |-> t,
    last_commit_time         |-> t,
    last_commit_total        |-> 0,
    total_count              |-> 0,
    records_since_time_check |-> 0,
    ema_rate                 |-> NoRate ]

\* _reset_timer without the moving average: the rate is the last sample
ResetTimer_NoSmoothing(tr, current_time) ==
  LET elapsed == current_time - tr.last_commit_time
      records_since_commit == tr.total_count - tr.last_commit_total
      current_rate == Rat(records_since_commit, elapsed)
      new_batch == RatMul(current_rate, RatOfInt(tr.time_interval))
      clamped == PyMax(RatOfInt(tr.min_time_check_batch),
                       PyMin(RatOfInt(tr.max_time_check_batch), new_batch))
      tr1 == IF elapsed > 0 /\ records_since_commit > 0
             THEN [tr EXCEPT !.ema_rate = current_rate, !.time_check_batch = PyRound(clamped)]
             ELSE tr
  IN  [tr1 EXCEPT !.last_commit_time = current_time,
                  !.last_commit_total = tr.total_count,
                  !.records_since_time_check = 0]

\* _reset_timer, with current_time the clock reading it takes
ResetTimer(tr, current_time) ==
  LET elapsed == current_time - tr.last_commit_time
      records_since_commit == tr.total_count - tr.last_commit_total
      current_rate == Rat(records_since_commit, elapsed)
      ema == IF tr.ema_rate = NoRate THEN current_rate
             ELSE RatAdd(RatMul(Rat(SmoothNum, SmoothDen), current_rate),
                         RatMul(Rat(SmoothDen - SmoothNum, SmoothDen), tr.ema_rate))
      new_batch == RatMul(ema, RatOfInt(tr.time_interval))
      clamped == PyMax(RatOfInt(tr.min_time_check_batch),
                       PyMin(RatOfInt(tr.max_time_check_batch), new_batch))
      tr1 == IF elapsed > 0 /\ records_since_commit > 0
             THEN [tr EXCEPT !.ema_rate = ema, !.time_check_batch = PyRound(clamped)]
             ELSE tr
  IN  [tr1 EXCEPT !.last_commit_time = current_time,
                  !.last_commit_total = tr.total_count,
                  !.records_since_time_check = 0]

\* the batch condition without the modulo
\* the count path without its trigger
BatchDue_Never(tr) == FALSE

BatchDue_NoModulo(tr) == tr.batch_size > 0 /\ tr.total_count >= tr.batch_size

\* the batch condition of should_commit
BatchDue(tr) == tr.batch_size > 0 /\ tr.total_count % tr.batch_size = 0

\* should_commit; t1 is the first clock reading the call takes and t2 the
\* second one (the time path reads the clock in the comparison and again in
\* _reset_timer).  Yields the tracker after the call, the value returned and
\* the last clock reading taken.
ShouldCommit(tr, t1, t2) ==
  LET tr1 == [tr EXCEPT !.total_count = @ + 1, !.records_since_time_check = @ + 1]
      tr2 == [tr1 EXCEPT !.records_since_time_check = 0]
  IN  IF BatchDue(tr1)
      THEN [tracker |-> ResetTimer(tr1, t1), ret |-> "count", clock |-> t1]
      ELSE IF tr1.records_since_time_check >= tr1.time_check_batch
      THEN IF t1 - tr1.last_commit_time >= tr1.time_interval
           THEN [tracker |-> ResetTimer(tr2, t2), ret |-> "time", clock |-> t2]
           ELSE [tracker |-> tr2, ret |-> "no", clock |-> t1]
      ELSE [tracker |-> tr1, ret |-> "no", clock |-> t1]

\* ------------------------------------------------------------- the store
MaxId == 3
Ids == 1..MaxId

EmptyTable == [i \in Ids |-> None]

StoreInit ==
  /\ systems = EmptyTable
  /\ population_data = EmptyTable
  /\ committed = [systems |-> EmptyTable, population_data |-> EmptyTable]
  /\ in_txn = FALSE
  /\ db_log = << >>

QueryInit ==
  /\ args = None
  /\ result = None
  /\ colony = None

IngestInit ==
  /\ pc = "idle"
  /\ kind = ""
  /\ stream = << >>
  /\ pos = 0
  /\ stderr = 0
  /\ raised = ""
  /\ before = None

\* int(a / b): truncation toward zero
Floor_Truncating(a, b) == IF a >= 0 THEN a \div b ELSE -((-a) \div b)

\* floor(a / b) of math.floor for b > 0: rounds toward minus infinity
Floor(a, b) == IF a >= 0 THEN a \div b ELSE -((-a + b - 1) \div b)

gkey(x, y, z) == <<Floor(x, GRID), Floor(y, GRID), Floor(z, GRID)>>

\* dict access on a JSON object (a function from keys to values)
Has(obj, k) == k \in DOMAIN obj
Get(obj, k, default) == IF Has(obj, k) THEN obj[k] ELSE default

\* ---------------------------------------------------------------- queries
\* a query command has returned (raised "") or ended with an exception
Return(cmd, a, res, col) ==
  /\ pc' = "done"
  /\ kind' = cmd
  /\ args' = a
  /\ result' = res
  /\ colony' = col
  /\ UNCHANGED <<trackerVars, storeVars, stream, pos, stderr, raised, before>>

\* SystemData(...) built from a row of systems
SystemData(row) ==
  [ id64 |-> row.id64, x |-> row.x, y |-> row.y, z |-> row.z,
    name |-> row.name, mainStar |-> row.main_star ]

\* The engine returns the rows of a SELECT without ORDER BY in an order of its
\* choice: order is that order, a sequence holding every id64 once.
Ascending == [k \in 1..MaxId |-> k]
Descending == [k \in 1..MaxId |-> MaxId + 1 - k]
ScanOrders == {Ascending, Descending}

\* the elements of a sequence
Range(seq) == { seq[k] : k \in DOMAIN seq }

\* [f(e) for e in seq]
Map(seq, f(_)) == [k \in DOMAIN seq |-> f(seq[k])]

\* lo <= v <= hi of SQL BETWEEN
Between(v, lo, hi) == lo <= v /\ v <= hi

query_grid_cell_range(order, min_gx, max_gx, min_gy, max_gy, min_gz, max_gz) ==
  LET hit(i) == /\ systems[i] # None
                /\ Between(systems[i].grid_x, min_gx, max_gx)
                /\ Between(systems[i].grid_y, min_gy, max_gy)
                /\ Between(systems[i].grid_z, min_gz, max_gz)
      row(i) == SystemData(systems[i])
  IN  Map(SelectSeq(order, hit), row)

get_population_by_id64(id64) == population_data[id64]

\* the cells of one axis a search of the given radius around center covers:
\* only the cell of the center
CellRange_CenterCell(center, radius) == <<Floor(center, GRID), Floor(center, GRID)>>

\* the cells of one axis a search of the given radius around center covers
CellRange(center, radius) ==
  <<Floor(center - radius, GRID), Floor(center + radius, GRID)>>

\* the squared distance of a system to a point
DistSq(system, cx, cy, cz) ==
  LET dx == system.x - cx
      dy == system.y - cy
      dz == system.z - cz
  IN  dx * dx + dy * dy + dz * dz

\* the list of (system, population, distance); the distance sqrt(dist_sq) is
\* carried by dist_sq
query_systems_by_radius(order, center_x, center_y, center_z, radius) ==
  LET gx == CellRange(center_x, radius)
      gy == CellRange(center_y, radius)
      gz == CellRange(center_z, radius)
      candidate_systems ==
        query_grid_cell_range(order, gx[1], gx[2], gy[1], gy[2], gz[1], gz[2])
      radius_sq == radius * radius
      near(system) == DistSq(system, center_x, center_y, center_z) <= radius_sq
      entry(system) ==
        [ system |-> system,
          population |-> get_population_by_id64(system.id64),
          dist |-> DistSq(system, center_x, center_y, center_z) ]
  IN  Map(SelectSeq(candidate_systems, near), entry)

\* a sequence holding every element of a set once (the order of tuple(set)
\* is immaterial to WHERE id64 IN (...))
RECURSIVE SetToSeq(_)
SetToSeq(S) ==
  IF S = {} THEN << >>
  ELSE LET e == CHOOSE x \in S : \A y \in S : x <= y
       IN  <<e>> \o SetToSeq(S \ {e})

\* the parameters bound without the set(): one per element of the input
BoundIds_NoSet(id64_list) == id64_list

\* the parameters bound to the placeholders of the IN (...) query
BoundIds(id64_list) == SetToSeq(Range(id64_list))

\* get_systems_by_id64s / get_populations_by_id64s over a table; row_of builds
\* the dataclass from a row
LookupByIds(table, id64_list, row_of(_)) ==
  IF id64_list = << >> THEN [params |-> << >>, rows |-> << >>]
  ELSE LET params == BoundIds(id64_list)
           fetched == { i \in Range(params) : table[i] # None }
           get(id64) == IF id64 \in fetched THEN row_of(table[id64]) ELSE None
       IN  [params |-> params, rows |-> Map(id64_list, get)]

PopulationData(row) == row

get_systems_by_id64s(id64_list) == LookupByIds(systems, id64_list, SystemData)
get_populations_by_id64s(id64_list) == LookupByIds(population_data, id64_list, PopulationData)

\* ---------------------------------------------- find_colony_candidates
DefaultCandidateRange == 15

\* no name is the wildcard
is_any_faction_Never(name) == FALSE

is_any_faction(name) == name = "ANY"

\* get_system_by_name: fetchone() of the rows with that name, in the engine's order
get_system_by_name(order, name) ==
  LET hits == SelectSeq(order, LAMBDA i : systems[i] # None /\ systems[i].name = name)
  IN  IF hits = << >> THEN None ELSE SystemData(systems[hits[1]])

\* query_systems_by_faction: population_data JOIN systems, filtered by faction
query_systems_by_faction(order, faction_name) ==
  LET any_faction == is_any_faction(faction_name)
      hit(i) == /\ population_data[i] # None
                /\ systems[i] # None
                /\ IF any_faction THEN population_data[i].controllingFaction # ""
                   ELSE population_data[i].controllingFaction = faction_name
      pair(i) == [system |-> SystemData(systems[i]), population |-> population_data[i]]
  IN  Map(SelectSeq(order, hit), pair)

\* the faction systems among the (system, population, distance) around the
\* reference system
FactionSystemsNear(ref_results, faction_name) ==
  LET any_faction == is_any_faction(faction_name)
      hit(e) == /\ e.population # None
                /\ \/ e.population.controllingFaction = faction_name
                   \/ (any_faction /\ e.population.controllingFaction # "")
      pair(e) == [system |-> e.system, population |-> e.population]
  IN  Map(SelectSeq(ref_results, hit), pair)

\* a dict in insertion order: its keys and the value of each key
EmptyDict == [keys |-> << >>, vals |-> [i \in Ids |-> None]]
DictGet(dict, k) == dict.vals[k]
DictPut(dict, k, v) ==
  [ keys |-> IF dict.vals[k] = None THEN Append(dict.keys, k) ELSE dict.keys,
    vals |-> [dict.vals EXCEPT ![k] = v] ]

\* "<=" in place of "<": an equal distance replaces the stored one
Closer_OrEqual(current, dist_to_faction) == current = None \/ dist_to_faction <= current.dist

\* the newly observed distance replaces the stored one
Closer(current, dist_to_faction) == current = None \/ dist_to_faction < current.dist

\* the inner loop: the candidates around one faction system, from the k-th on
RECURSIVE ScanCandidates(_, _, _, _)
ScanCandidates(candidate_info, faction_sys, candidates, k) ==
  IF k > Len(candidates) THEN candidate_info
  ELSE LET candidate_sys == candidates[k].system
           candidate_pop == candidates[k].population
           dist_to_faction == candidates[k].dist
           current == DictGet(candidate_info, candidate_sys.id64)
           updated ==
             IF candidate_sys.id64 = faction_sys.id64 THEN candidate_info
             ELSE IF candidate_pop = None \/ candidate_pop.controllingFaction = ""
             THEN IF Closer(current, dist_to_faction)
                  THEN DictPut(candidate_info, candidate_sys.id64,
                               [dist |-> dist_to_faction, faction_id |-> faction_sys.id64])
                  ELSE candidate_info
             ELSE candidate_info
       IN  ScanCandidates(updated, faction_sys, candidates, k + 1)

\* the outer loop: the faction systems from the i-th on
RECURSIVE ScanFactionSystems(_, _, _, _, _)
ScanFactionSystems(candidate_info, order, faction_systems, candidate_range, i) ==
  IF i > Len(faction_systems) THEN candidate_info
  ELSE LET faction_sys == faction_systems[i].system
           candidates == query_systems_by_radius(order, faction_sys.x, faction_sys.y,
                                                 faction_sys.z, candidate_range)
       IN  ScanFactionSystems(ScanCandidates(candidate_info, faction_sys, candidates, 1),
                              order, faction_systems, candidate_range, i + 1)

\* the final filter without its check of the owner
RECURSIVE ValidCandidates_NoRecheck(_, _, _, _)
ValidCandidates_NoRecheck(candidate_info, candidate_systems, candidate_populations, k) ==
  IF k > Len(candidate_info.keys) THEN << >>
  ELSE LET id64 == candidate_info.keys[k]
           found(rows) == { j \in DOMAIN rows : rows[j] # None /\ rows[j].id64 = id64 }
           sys == IF found(candidate_systems) = {} THEN None
                  ELSE candidate_systems[CHOOSE j \in found(candidate_systems) : TRUE]
           pop == IF found(candidate_populations) = {} THEN None
                  ELSE candidate_populations[CHOOSE j \in found(candidate_populations) : TRUE]
           info == DictGet(candidate_info, id64)
           rest == ValidCandidates_NoRecheck(candidate_info, candidate_systems,
                                             candidate_populations, k + 1)
       IN  IF sys = None THEN rest
           ELSE <<[system |-> sys, population |-> pop, dist |-> info.dist,
                   faction_id |-> info.faction_id]>> \o rest

\* the final filter over candidate_info.items(), from the k-th key on
RECURSIVE ValidCandidates(_, _, _, _)
ValidCandidates(candidate_info, candidate_systems, candidate_populations, k) ==
  IF k > Len(candidate_info.keys) THEN << >>
  ELSE LET id64 == candidate_info.keys[k]
           found(rows) == { j \in DOMAIN rows : rows[j] # None /\ rows[j].id64 = id64 }
           sys == IF found(candidate_systems) = {} THEN None
                  ELSE candidate_systems[CHOOSE j \in found(candidate_systems) : TRUE]
           pop == IF found(candidate_populations) = {} THEN None
                  ELSE candidate_populations[CHOOSE j \in found(candidate_populations) : TRUE]
           info == DictGet(candidate_info, id64)
           rest == ValidCandidates(candidate_info, candidate_systems,
                                   candidate_populations, k + 1)
       IN  IF sys = None THEN rest
           ELSE IF pop = None \/ pop.controllingFaction = ""
           THEN <<[system |-> sys, population |-> pop, dist |-> info.dist,
                   faction_id |-> info.faction_id]>> \o rest
           ELSE rest

\* find_colony_candidates ends with an exception.  Every sys.exit(...) of the
\* function does: sys is a local of the function (the loop at line 667 and
\* the assignment at line 741 bind it), so the call raises UnboundLocalError
\* while sys is unbound and AttributeError once it holds a SystemData or None.
ColonyRaise(a, col, exc) ==
  /\ pc' = "aborted"
  /\ raised' = exc
  /\ kind' = "find-colony-candidates"
  /\ args' = a
  /\ colony' = col
  /\ UNCHANGED <<trackerVars, storeVars, stream, pos, stderr, before, result>>

\* what the locals are as the scan ends
ColonyLocals(range, fs, info, valid, call) ==
  [ candidate_range |-> range, faction_systems |-> fs, candidate_info |-> info,
    valid_candidates |-> valid, exit_call |-> call ]

\* find_colony_candidates up to the end of the scan of the faction systems
ColonyScanWith(a, order) ==
  LET with_ref == a.reference_system # ""
      candidate_range ==
        IF with_ref THEN (IF Len(a.ranges) > 1 THEN a.ranges[2] ELSE DefaultCandidateRange)
        ELSE (IF a.ranges # << >> THEN a.ranges[1] ELSE DefaultCandidateRange)
      ref_system == get_system_by_name(order, a.reference_system)
      ref_results == query_systems_by_radius(order, ref_system.x, ref_system.y,
                                             ref_system.z, a.ranges[1])
      faction_systems ==
        IF with_ref THEN FactionSystemsNear(ref_results, a.faction_name)
        ELSE query_systems_by_faction(order, a.faction_name)
      \* sys after line 675: bound by the loop over ref_results when it ran
      sys_bound == with_ref /\ ref_results # << >>
      exit_raises == IF sys_bound THEN "AttributeError" ELSE "UnboundLocalError"
      candidate_info ==
        ScanFactionSystems(EmptyDict, order, faction_systems, candidate_range, 1)
  IN  IF with_ref /\ Len(a.ranges) < 1
      THEN ColonyRaise(a, ColonyLocals(candidate_range, << >>, EmptyDict, << >>, "sys.exit(1)"),
                       "UnboundLocalError")
      ELSE IF with_ref /\ ref_system = None
      THEN ColonyRaise(a, ColonyLocals(candidate_range, << >>, EmptyDict, << >>, "sys.exit(1)"),
                       "UnboundLocalError")
      ELSE IF faction_systems = << >>
      THEN ColonyRaise(a, ColonyLocals(candidate_range, faction_systems, EmptyDict, << >>, "sys.exit(0)"),
                       exit_raises)
      ELSE IF candidate_info.keys = << >>
      THEN ColonyRaise(a, ColonyLocals(candidate_range, faction_systems, candidate_info, << >>,
                                       "sys.exit(0)"),
                       exit_raises)
      ELSE /\ pc' = "scanned"
           /\ kind' = "find-colony-candidates"
           /\ args' = a
           /\ colony' = ColonyLocals(candidate_range, faction_systems, candidate_info, << >>, "")
           /\ UNCHANGED <<trackerVars, storeVars, stream, pos, stderr, raised, before, result>>

\* the rest of find_colony_candidates: the batch re-read, the final filter
\* and the report
ColonyVerify ==
  /\ pc = "scanned"
  /\ LET keys == colony.candidate_info.keys
         candidate_systems == get_systems_by_id64s(keys).rows
         candidate_populations == get_populations_by_id64s(keys).rows
         valid == ValidCandidates(colony.candidate_info, candidate_systems,
                                  candidate_populations, 1)
     IN  IF valid = << >>
         THEN ColonyRaise(args, [colony EXCEPT !.exit_call = "sys.exit(0)"],
                          "AttributeError")
         ELSE Return("find-colony-candidates", args, valid,
                     [colony EXCEPT !.valid_candidates = valid])

\* ------------------------------------------------------------- ingestion
MaxStream == 2
IngestBatchSize == 2

\* Python's None where an int is expected (the ints of the model are >= 0)
NoneInt == -1

\* sqlite statements on the connection
Commit(sys, pop) == [systems |-> sys, population_data |-> pop]

\* the trackers the two operations construct, scaled down from
\* batch_size=50_000, initial_time_check_batch=100, min_time_check_batch=10 and
\* max_time_check_batch=50_000 (systems: equal to batch_size) or 10_000
\* (population: below batch_size)
SystemsTracker == NewTracker(IngestBatchSize, TimeInterval, 1, 1, IngestBatchSize, 0)
PopulationTracker == NewTracker(IngestBatchSize, TimeInterval, 1, 1, 1, 0)

\* obj['name'], obj['coords'], c['x'], c['y'], c['z'] or obj['id64'] raises KeyError
SysMalformed(obj) ==
  \/ ~Has(obj, "name")
  \/ ~Has(obj, "coords")
  \/ (Has(obj, "coords") /\ ({"x", "y", "z"} \ DOMAIN obj.coords # {}))
  \/ ~Has(obj, "id64")

\* the row update_systems writes for a well-formed item
SystemRow(obj) ==
  LET c == obj.coords
      g == gkey(c.x, c.y, c.z)
  IN  [ id64 |-> obj.id64,
        grid_x |-> g[1], grid_y |-> g[2], grid_z |-> g[3],
        x |-> c.x, y |-> c.y, z |-> c.z,
        name |-> obj.name,
        main_star |-> Get(obj, "mainStar", "N/A") ]

\* INSERT OR IGNORE: an existing row is kept
InsertOrReplace_Ignore(table, row) ==
  IF table[row.id64] = None THEN [table EXCEPT ![row.id64] = row] ELSE table

\* full-replace semantics: the rows of the other id64 are purged
InsertOrReplace_Purging(table, row) == [i \in Ids |-> IF i = row.id64 THEN row ELSE None]

\* INSERT OR REPLACE INTO a table keyed by id64
InsertOrReplace(table, row) == [table EXCEPT ![row.id64] = row]

\* "population is None" in place of "not population": a zero is stored
PopSkipped_ZeroStored(obj) ==
  LET population == Get(obj, "population", NoneInt)
      primary_economy == Get(obj, "primaryEconomy", "")
  IN  population = NoneInt \/ primary_economy = ""

\* the population item is skipped: "not population or not primary_economy"
PopSkipped(obj) ==
  LET population == Get(obj, "population", NoneInt)
      primary_economy == Get(obj, "primaryEconomy", "")
  IN  population = NoneInt \/ population = 0 \/ primary_economy = ""

\* the row update_population_data writes for an item it does not skip
PopulationRow(obj) ==
  LET cf == Get(obj, "controllingFaction", [type |-> "absent"])
      controlling_faction ==
        IF Has(obj, "controllingFaction") /\ cf.type = "dict"
        THEN Get(cf.items, "name", "")
        ELSE ""
  IN  [ id64 |-> obj.id64,
        population |-> obj.population,
        security |-> Get(obj, "security", ""),
        controllingFaction |-> controlling_faction,
        primaryEconomy |-> obj.primaryEconomy,
        secondaryEconomy |-> Get(obj, "secondaryEconomy", "") ]

\* the exception path commits the open transaction before it closes
Raise_Committing(exc) ==
  /\ pc' = "aborted"
  /\ raised' = exc
  /\ committed' = Commit(systems, population_data)
  /\ in_txn' = FALSE
  /\ UNCHANGED <<trackerVars, systems, population_data, db_log, kind, stream, pos, stderr,
                 before, queryVars>>

\* an exception leaves the operation and the "with GalaxyDatabase(...)" block:
\* the connection is closed and its open transaction is rolled back
Raise(exc) ==
  /\ pc' = "aborted"
  /\ raised' = exc
  /\ systems' = committed.systems
  /\ population_data' = committed.population_data
  /\ in_txn' = FALSE
  /\ UNCHANGED <<trackerVars, committed, db_log, kind, stream, pos, stderr, before, queryVars>>

\* the head of update_systems / update_population_data: the tracker is
\* constructed and BEGIN TRANSACTION issued.  again: the file is the one the
\* operation that just returned has ingested.
StartUpdate(k, file, again) ==
  /\ IF again THEN pc = "done" /\ kind = k /\ stream = file ELSE pc = "idle"
  /\ tracker' = IF k = "systems" THEN SystemsTracker ELSE PopulationTracker
  /\ now' = 0
  /\ returns' = << >>
  /\ in_txn' = TRUE
  /\ db_log' = <<"BEGIN">>
  /\ pc' = "running"
  /\ kind' = k
  /\ stream' = file
  /\ pos' = 0
  /\ stderr' = 0
  /\ raised' = ""
  /\ before' = IF again THEN Commit(systems, population_data) ELSE None
  /\ UNCHANGED <<systems, population_data, committed, queryVars>>

\* a commit the tracker signals is not followed by BEGIN TRANSACTION
AfterUpsert_NoBegin(sys, pop, D1) ==
  \E d1 \in D1, d2 \in 0..1 :
    LET r == ShouldCommit(tracker, now + d1, now + d1 + d2)
    IN  /\ tracker' = r.tracker
        /\ now' = r.clock
        /\ returns' = Append(returns, r.ret)
        /\ systems' = sys
        /\ population_data' = pop
        /\ committed' = IF r.ret # "no" THEN Commit(sys, pop) ELSE committed
        /\ in_txn' = (r.ret = "no")
        /\ db_log' = db_log \o <<"INSERT">> \o
                       (IF r.ret # "no" THEN <<"COMMIT">> ELSE << >>)

\* the statements after an upsert: should_commit and, when it says so,
\* COMMIT and BEGIN TRANSACTION
AfterUpsert(sys, pop, D1) ==
  \E d1 \in D1, d2 \in 0..1 :
    LET r == ShouldCommit(tracker, now + d1, now + d1 + d2)
    IN  /\ tracker' = r.tracker
        /\ now' = r.clock
        /\ returns' = Append(returns, r.ret)
        /\ systems' = sys
        /\ population_data' = pop
        /\ committed' = IF r.ret # "no" THEN Commit(sys, pop) ELSE committed
        /\ in_txn' = TRUE
        /\ db_log' = db_log \o <<"INSERT">> \o
                       (IF r.ret # "no" THEN <<"COMMIT", "BEGIN">> ELSE << >>)

\* one iteration of the loop of update_systems
SystemsStep(D1) ==
  /\ pc = "running" /\ kind = "systems" /\ pos < Len(stream)
  /\ LET obj == stream[pos + 1]
     IN  IF SysMalformed(obj)
         THEN Raise("KeyError")
         ELSE /\ AfterUpsert(InsertOrReplace(systems, SystemRow(obj)), population_data, D1)
              /\ pos' = pos + 1
              /\ UNCHANGED <<pc, kind, stream, stderr, raised, before, queryVars>>

\* one iteration of the loop of update_population_data
PopulationStep(D1) ==
  /\ pc = "running" /\ kind = "population" /\ pos < Len(stream)
  /\ LET obj == stream[pos + 1]
     IN  IF ~Has(obj, "id64")
         THEN \* KeyError, caught: printed to stderr, next item
              /\ pos' = pos + 1
              /\ stderr' = stderr + 1
              /\ UNCHANGED <<trackerVars, storeVars, pc, kind, stream, raised, before, queryVars>>
         ELSE IF PopSkipped(obj)
         THEN /\ pos' = pos + 1
              /\ UNCHANGED <<trackerVars, storeVars, pc, kind, stream, stderr, raised, before,
                             queryVars>>
         ELSE /\ AfterUpsert(systems, InsertOrReplace(population_data, PopulationRow(obj)), D1)
              /\ pos' = pos + 1
              /\ UNCHANGED <<pc, kind, stream, stderr, raised, before, queryVars>>

\* reading or decompressing the next item fails (gzip.open / ijson.items)
StreamFails ==
  /\ pc = "running"
  /\ Raise("IOError")

\* the tail without its first commit: the statistics are refreshed inside
\* the transaction that holds the last upserts
FinishUpdate_AnalyzeFirst ==
  /\ pc = "running" /\ pos = Len(stream)
  /\ committed' = Commit(systems, population_data)
  /\ in_txn' = FALSE
  /\ db_log' = db_log \o <<"ANALYZE", "COMMIT">>
  /\ pc' = "done"
  /\ UNCHANGED <<trackerVars, systems, population_data, kind, stream, pos, stderr,
                 raised, before, queryVars>>

\* the tail of both operations, once the stream is exhausted:
\* commit, ANALYZE, commit
FinishUpdate ==
  /\ pc = "running" /\ pos = Len(stream)
  /\ committed' = Commit(systems, population_data)
  /\ in_txn' = FALSE
  /\ db_log' = db_log \o <<"COMMIT", "ANALYZE", "COMMIT">>
  /\ pc' = "done"
  /\ UNCHANGED <<trackerVars, systems, population_data, kind, stream, pos, stderr,
                 raised, before, queryVars>>

\* the command has returned or raised: the process ends, and with it the
\* tracker, the cursor and the connection; the next command starts afresh
ProcessExit ==
  /\ pc \in {"done", "aborted"}
  /\ tracker' = None
  /\ now' = 0
  /\ returns' = << >>
  /\ db_log' = << >>
  /\ pc' = "idle"
  /\ kind' = ""
  /\ stream' = << >>
  /\ pos' = 0
  /\ stderr' = 0
  /\ raised' = ""
  /\ before' = None
  /\ args' = None
  /\ result' = None
  /\ colony' = None
  /\ UNCHANGED <<systems, population_data, committed, in_txn>>

\* ------------------------------------------------ the snapshots ingested
\* items of a systems dump: well-formed ones (a re-ingested id64 with moved,
\* negative and on-the-boundary coordinates, a missing mainStar) and items
\* missing a required field
SysObjs ==
  { [name |-> "Alpha", coords |-> [x |-> 0, y |-> 0, z |-> 0], id64 |-> 1, mainStar |-> "K"],
    [name |-> "Alpha", coords |-> [x |-> -1, y |-> 25, z |-> -26], id64 |-> 1],
    [name |-> "Beta", coords |-> [x |-> 3, y |-> 4, z |-> 0], id64 |-> 2, mainStar |-> "M"],
    [coords |-> [x |-> 3, y |-> 4, z |-> 0], id64 |-> 2],
    [name |-> "Beta", coords |-> [x |-> 3, y |-> 4], id64 |-> 2],
    [name |-> "Beta", coords |-> [x |-> 3, y |-> 4, z |-> 0]] }

\* items of a population dump: stored ones (a named controlling faction, a
\* controllingFaction object without a name, one that is not an object),
\* unpopulated ones (population 0, no primaryEconomy) and two without id64
\* (a populated and an unpopulated one)
PopObjs ==
  { [id64 |-> 1, population |-> 1000, security |-> "High", primaryEconomy |-> "Agri",
     secondaryEconomy |-> "None", controllingFaction |-> [type |-> "dict", items |-> [name |-> "X"]]],
    [id64 |-> 1, population |-> 500, primaryEconomy |-> "Tech",
     controllingFaction |-> [type |-> "dict", items |-> [id |-> "7"]]],
    [id64 |-> 1, population |-> 0, primaryEconomy |-> "Agri",
     controllingFaction |-> [type |-> "dict", items |-> [name |-> "Y"]]],
    [id64 |-> 2, population |-> 20, security |-> "Low",
     controllingFaction |-> [type |-> "dict", items |-> [name |-> "Y"]]],
    [id64 |-> 2, population |-> 20, primaryEconomy |-> "Agri",
     controllingFaction |-> [type |-> "str", value |-> "Y"]],
    [population |-> 1000, primaryEconomy |-> "Agri"],
    [population |-> 0, primaryEconomy |-> "Agri"] }

\* the files: every sequence of at most MaxStream items
Streams(Objs) == UNION { [1..n -> Objs] : n \in 0..MaxStream }

\* time that passes while one item is read and upserted: none, or a whole
\* time_interval
IngestSteps == {0, TimeInterval}

UpdateSystems == \E file \in Streams(SysObjs) : StartUpdate("systems", file, FALSE)
UpdatePopulationData == \E file \in Streams(PopObjs) : StartUpdate("population", file, FALSE)
UpdateAgain == kind \in {"systems", "population"} /\ StartUpdate(kind, stream, TRUE)
SystemsItem == SystemsStep(IngestSteps)
PopulationItem == PopulationStep(IngestSteps)

\* the batch lookups, on any list of at most MaxIdList identifiers
MaxIdList == 3
IdLists == UNION { [1..n -> Ids] : n \in 0..MaxIdList }

GetSystemsByIds ==
  /\ pc = "idle"
  /\ \E id64_list \in IdLists :
       Return("get_systems_by_id64s", [id64_list |-> id64_list],
              get_systems_by_id64s(id64_list), None)

GetPopulationsByIds ==
  /\ pc = "idle"
  /\ \E id64_list \in IdLists :
       Return("get_populations_by_id64s", [id64_list |-> id64_list],
              get_populations_by_id64s(id64_list), None)

Init ==
  /\ tracker = None
  /\ now = 0
  /\ returns = << >>
  /\ StoreInit
  /\ IngestInit
  /\ QueryInit

Next ==
  \/ UpdateSystems
  \/ UpdatePopulationData
  \/ UpdateAgain
  \/ SystemsItem
  \/ PopulationItem
  \/ StreamFails
  \/ FinishUpdate
  \/ ProcessExit
  \/ GetSystemsByIds
  \/ GetPopulationsByIds

Spec == Init /\ [][Next]_vars

\* ------------------------------------------------- the radius query alone
\* systems on and around bucket boundaries, with negative coordinates, and at
\* distances 5 and 25 of the centers
Point(x, y, z) == [x |-> x, y |-> y, z |-> z]
RadiusPoints ==
  { Point(0, 0, 0), Point(25, 0, 0), Point(-25, 0, 0), Point(-1, -1, -1),
    Point(3, 4, 0), Point(24, 24, 24), Point(-26, 0, 50) }
RadiusObjs ==
  { [name |-> "S", coords |-> c, id64 |-> i] : c \in RadiusPoints, i \in {1, 2} }
Centers == { Point(0, 0, 0), Point(25, 25, 25), Point(-25, 0, 0), Point(-1, 0, 0) }
Radii == {0, 1, 5, 25, 26, 50}

RadiusUpdateSystems == \E obj \in RadiusObjs : StartUpdate("systems", <<obj>>, FALSE)
FastSystemsItem == SystemsStep({0})

\* the command query-radius
QueryRadius ==
  /\ pc = "idle"
  /\ \E c \in Centers, radius \in Radii, order \in ScanOrders :
       Return("query-radius", [x |-> c.x, y |-> c.y, z |-> c.z, radius |-> radius],
              query_systems_by_radius(order, c.x, c.y, c.z, radius), None)

RadiusNext ==
  \/ RadiusUpdateSystems
  \/ FastSystemsItem
  \/ FinishUpdate
  \/ ProcessExit
  \/ QueryRadius

SpecRadius == Init /\ [][RadiusNext]_vars

\* ------------------------------------------- whole-store restore and dump
\* what sqlite3.connect(...) / Connection.backup(...) does: it completes, or
\* raises a storage error
BackupOutcomes == {"ok", "sqlite3.OperationalError"}

\* the stores a --restore-from file may hold
BackupFiles ==
  { Commit(EmptyTable, EmptyTable),
    Commit([EmptyTable EXCEPT ![2] =
              SystemRow([name |-> "Beta", coords |-> [x |-> 3, y |-> 4, z |-> 0],
                         id64 |-> 2, mainStar |-> "M"])],
           EmptyTable) }

\* GalaxyDatabase(db, restore_from): _restore_from_file copies the file over
\* the store; an exception of the copy is caught and printed, and the
\* constructor goes on to _initialize_schema and returns.  pc "constructed":
\* the object is handed to the command.
RestoreFromFile ==
  /\ pc = "idle"
  /\ \E src \in BackupFiles, outcome \in BackupOutcomes :
       /\ systems' = IF outcome = "ok" THEN src.systems ELSE systems
       /\ population_data' = IF outcome = "ok" THEN src.population_data ELSE population_data
       /\ committed' = IF outcome = "ok" THEN src ELSE committed
       /\ args' = [restore_from |-> src, outcome |-> outcome]
       /\ result' = [printed |-> IF outcome = "ok" THEN "Restore complete"
                                                   ELSE "Restore failed: "]
  /\ pc' = "constructed"
  /\ kind' = "restore"
  /\ raised' = ""
  /\ UNCHANGED <<trackerVars, in_txn, db_log, stream, pos, stderr, before, colony>>

\* the command query-radius on a store constructed with --restore-from
RestoredQueryRadius ==
  /\ pc = "constructed"
  /\ \E c \in Centers, radius \in {25}, order \in ScanOrders :
       Return("query-radius", [x |-> c.x, y |-> c.y, z |-> c.z, radius |-> radius],
              query_systems_by_radius(order, c.x, c.y, c.z, radius), None)

\* dump_to_file after the command (--dump-to): the store is copied to the
\* target; an exception of the copy is caught and printed, and the method
\* returns.  result: what was printed and what the target file holds.
DumpToFile ==
  /\ pc = "done" /\ kind \in {"systems", "query-radius"}
  /\ \E outcome \in BackupOutcomes :
       /\ args' = [dump_to |-> "file", outcome |-> outcome]
       /\ result' = [printed |-> IF outcome = "ok" THEN "Dump complete" ELSE "Dump failed: ",
                     target |-> IF outcome = "ok" THEN committed ELSE None]
  /\ pc' = "done"
  /\ kind' = "dump"
  /\ raised' = ""
  /\ UNCHANGED <<trackerVars, storeVars, stream, pos, stderr, before, colony>>

BackupNext ==
  \/ RadiusUpdateSystems
  \/ FastSystemsItem
  \/ FinishUpdate
  \/ ProcessExit
  \/ RestoreFromFile
  \/ RestoredQueryRadius
  \/ DumpToFile

SpecBackup == Init /\ [][BackupNext]_vars

\* ------------------------------------------------ the colony search alone
\* three systems on a line, 5 light years apart, the first also on the place
\* of the second and the third also far away; any of them unclaimed (no row,
\* or a row without faction name) or controlled by faction X or Y
ColonySysObjs ==
  { [name |-> "S1", coords |-> Point(0, 0, 0), id64 |-> 1],
    [name |-> "S1", coords |-> Point(3, 4, 0), id64 |-> 1],
    [name |-> "S2", coords |-> Point(3, 4, 0), id64 |-> 2],
    [name |-> "S3", coords |-> Point(6, 8, 0), id64 |-> 3],
    [name |-> "S3", coords |-> Point(50, 0, 0), id64 |-> 3] }
ColonyPopObjs ==
  { [id64 |-> i, population |-> 1000, primaryEconomy |-> "Agri", controllingFaction |-> cf] :
      i \in {1, 2, 3},
      cf \in { [type |-> "dict", items |-> [name |-> "X"]],
               [type |-> "dict", items |-> [name |-> "Y"]],
               [type |-> "dict", items |-> [id |-> "7"]] } }

\* the command lines: a faction name (a faction, the ANY wildcard, the empty
\* string), --from with a stored or unknown system or without it, the ranges
ColonyArgs ==
  { [faction_name |-> f, reference_system |-> r, ranges |-> g] :
      f \in {"X", "ANY", ""}, r \in {"", "S1", "Nowhere"},
      g \in {<< >>, <<5>>, <<10>>, <<10, 5>>} }

ColonyUpdateSystems == \E obj \in ColonySysObjs : StartUpdate("systems", <<obj>>, FALSE)
ColonyUpdatePopulation == \E obj \in ColonyPopObjs : StartUpdate("population", <<obj>>, FALSE)
FastPopulationItem == PopulationStep({0})

\* the command find-colony-candidates
ColonyScan ==
  /\ pc = "idle"
  /\ \E a \in ColonyArgs, order \in ScanOrders : ColonyScanWith(a, order)

ColonyNext ==
  \/ ColonyUpdateSystems
  \/ ColonyUpdatePopulation
  \/ FastSystemsItem
  \/ FastPopulationItem
  \/ FinishUpdate
  \/ ProcessExit
  \/ ColonyScan
  \/ ColonyVerify

SpecColony == Init /\ [][ColonyNext]_vars

\* ------------------------- the colony search next to a concurrent writer
\* The re-verification at its two reads.  get_systems_by_id64s (line 731):
\* result holds the rows read until the filter has run.
ColonyReadSystems ==
  /\ pc = "scanned"
  /\ pc' = "verifying"
  /\ result' = [candidate_systems |-> get_systems_by_id64s(colony.candidate_info.keys).rows]
  /\ UNCHANGED <<trackerVars, storeVars, kind, stream, pos, stderr, raised, before, args,
                 colony>>

\* get_populations_by_id64s (line 732), the final filter and the report
ColonyFilter ==
  /\ pc = "verifying"
  /\ LET keys == colony.candidate_info.keys
         candidate_populations == get_populations_by_id64s(keys).rows
         valid == ValidCandidates(colony.candidate_info, result.candidate_systems,
                                  candidate_populations, 1)
     IN  IF valid = << >>
         THEN ColonyRaise(args, [colony EXCEPT !.exit_call = "sys.exit(0)"],
                             "AttributeError")
         ELSE Return("find-colony-candidates", args, valid,
                     [colony EXCEPT !.valid_candidates = valid])

\* another process ingests a population record and commits it while the
\* search runs: the search's connection reads it from then on
WriterCommits ==
  /\ pc \in {"scanned", "verifying"}
  /\ \E obj \in ColonyPopObjs :
       /\ population_data' = InsertOrReplace(population_data, PopulationRow(obj))
       /\ committed' = Commit(systems, InsertOrReplace(population_data, PopulationRow(obj)))
  /\ UNCHANGED <<trackerVars, systems, in_txn, db_log, ingestVars, queryVars>>

\* the searches run next to the writer
WriterArgs ==
  { [faction_name |-> "X", reference_system |-> "", ranges |-> <<5>>],
    [faction_name |-> "X", reference_system |-> "S1", ranges |-> <<10, 5>>] }

WriterColonyScan ==
  /\ pc = "idle"
  /\ \E a \in WriterArgs, order \in ScanOrders : ColonyScanWith(a, order)

WriterNext ==
  \/ ColonyUpdateSystems
  \/ ColonyUpdatePopulation
  \/ FastSystemsItem
  \/ FastPopulationItem
  \/ FinishUpdate
  \/ ProcessExit
  \/ WriterColonyScan
  \/ ColonyReadSystems
  \/ ColonyFilter
  \/ WriterCommits

SpecWriter == Init /\ [][WriterNext]_vars

\* ---------------------------------------------- the tracker on its own
BatchSizes == {0, 2, 3}
InitialTcbs == 1..4
MinTcbs == {1, 2}
MaxTcbs == {2, 3}

TrackerInit ==
  /\ \E b \in BatchSizes, i \in InitialTcbs, mn \in MinTcbs, mx \in MaxTcbs :
       tracker = NewTracker(b, TimeInterval, i, mn, mx, 0)
  /\ now = 0
  /\ returns = << >>
  /\ StoreInit
  /\ IngestInit
  /\ QueryInit

\* one call of should_commit, made d1 ticks after the previous clock reading
\* (d1 drawn from D1); d2 ticks pass between the two readings of the time path
TrackerShouldCommit(D1) ==
  /\ tracker # None
  /\ tracker.total_count < MaxCalls
  /\ \E d1 \in D1, d2 \in 0..1 :
       LET r == ShouldCommit(tracker, now + d1, now + d1 + d2)
       IN  /\ tracker' = r.tracker
           /\ now' = r.clock
           /\ returns' = Append(returns, r.ret)
  /\ UNCHANGED <<storeVars, ingestVars, queryVars>>

CallShouldCommit == TrackerShouldCommit(0..MaxStep)

\* a slow stream: consecutive records are more than time_interval apart, so
\* fewer than two records (hence fewer than batch_size) arrive in any window
\* of time_interval ticks
SlowCallShouldCommit == TrackerShouldCommit({TimeInterval + 1})

TrackerNext == CallShouldCommit
SlowNext == SlowCallShouldCommit

SpecTracker == TrackerInit /\ [][TrackerNext]_vars
SpecSlow == TrackerInit /\ [][SlowNext]_vars

\* ====================================================================
\* The claims
\* ====================================================================
NoTimeCommit == \A i \in 1..Len(returns) : returns[i] # "time"

\* C1: with batch_size = B > 0, in a run where the time path never fired,
\* the n-th call of should_commit returned true exactly when n is a multiple
\* of B.
C1_CountCommits ==
  (tracker.batch_size > 0 /\ NoTimeCommit) =>
    \A n \in 1..Len(returns) :
      (returns[n] # "no") <=> (n % tracker.batch_size = 0)

C1_Witness ==
  /\ tracker.batch_size = 2
  /\ NoTimeCommit
  /\ Len(returns) >= 6
  /\ returns[1] = "no" /\ returns[2] = "count" /\ returns[3] = "no"
  /\ returns[4] = "count" /\ returns[6] = "count"

\* C2 (as claimed): on a slow stream whose records keep arriving, whatever
\* the tracker's parameters, should_commit has returned true through the
\* time path by the time MaxCalls records have arrived.
C2_SlowStreamTimeCommit ==
  (tracker.batch_size > 0 /\ tracker.total_count >= MaxCalls) =>
    \E i \in 1..Len(returns) : returns[i] = "time"

\* the statements of the log that are s
Positions(s) == { i \in 1..Len(db_log) : db_log[i] = s }

\* an ingestion (update_systems or update_population_data) has returned
Ingested == pc = "done" /\ kind \in {"systems", "population"}

\* C3: when an ingestion returns, its log ends with COMMIT, ANALYZE, COMMIT;
\* that ANALYZE is the only one, every upsert precedes the commit in front of
\* it, and the tables are committed as they stand.  Before the stream is
\* exhausted no ANALYZE is issued.
C3_FinalCommit ==
  LET n == Len(db_log)
  IN  /\ pc = "running" => Positions("ANALYZE") = {}
      /\ Ingested =>
            /\ n >= 4
            /\ db_log[n - 2] = "COMMIT" /\ db_log[n - 1] = "ANALYZE" /\ db_log[n] = "COMMIT"
            /\ Positions("ANALYZE") = {n - 1}
            /\ \A i \in Positions("INSERT") : i < n - 2
            /\ ~in_txn
            /\ committed = Commit(systems, population_data)

C3_Witness ==
  /\ Ingested
  /\ NoTimeCommit /\ \A i \in 1..Len(returns) : returns[i] # "count"
  /\ Positions("INSERT") # {}
  /\ Positions("COMMIT") = {Len(db_log) - 2, Len(db_log)}

\* the stored systems whose distance to the center of the query is <= radius
WithinRadius ==
  { i \in Ids : systems[i] # None /\
      DistSq(systems[i], args.x, args.y, args.z) <= args.radius * args.radius }

\* C4: query_systems_by_radius returns every stored system within the radius
\* of the center once, with its row and its distance, and no other system.
C4_RadiusExact ==
  (pc = "done" /\ kind = "query-radius") =>
    /\ { result[k].system.id64 : k \in DOMAIN result } = WithinRadius
    /\ Len(result) = Cardinality(WithinRadius)
    /\ \A k \in DOMAIN result :
         /\ result[k].system = SystemData(systems[result[k].system.id64])
         /\ result[k].dist = DistSq(result[k].system, args.x, args.y, args.z)

\* a hit at distance exactly the radius, on a bucket boundary outside the
\* cell of the center, next to a stored system that is not returned
C4_Witness ==
  /\ pc = "done" /\ kind = "query-radius"
  /\ args = [x |-> 0, y |-> 0, z |-> 0, radius |-> 25]
  /\ Len(result) = 1
  /\ result[1].system.x = -25 /\ result[1].dist = 625
  /\ \E i \in Ids : systems[i] # None /\ systems[i].x = -26

\* C5: a batch lookup binds every distinct identifier of its input once and
\* returns, position by position, the stored row of the input identifier or
\* None when it is not stored.
C5_BatchLookup ==
  (pc = "done" /\ kind \in {"get_systems_by_id64s", "get_populations_by_id64s"}) =>
    LET ids == args.id64_list
        table == IF kind = "get_systems_by_id64s" THEN systems ELSE population_data
    IN  /\ Len(result.rows) = Len(ids)
        /\ \A k \in DOMAIN ids :
             IF table[ids[k]] = None THEN result.rows[k] = None
             ELSE /\ result.rows[k] # None
                  /\ result.rows[k].id64 = ids[k]
                  /\ IF kind = "get_systems_by_id64s"
                     THEN result.rows[k] = SystemData(table[ids[k]])
                     ELSE result.rows[k] = table[ids[k]]
        /\ \A j, k \in DOMAIN ids : ids[j] = ids[k] => result.rows[j] = result.rows[k]
        /\ \A i \in Range(ids) :
             Cardinality({ k \in DOMAIN result.params : result.params[k] = i }) = 1
        /\ Range(result.params) = Range(ids)

\* [a, b, a, c] with a stored and c not
C5_Witness ==
  /\ pc = "done" /\ kind = "get_systems_by_id64s"
  /\ args.id64_list = <<1, 2, 1>>
  /\ systems[1] # None /\ systems[2] = None
  /\ result.rows[1] # None /\ result.rows[1] = result.rows[3] /\ result.rows[2] = None
  /\ Len(result.params) = 2

\* a colony search has run to its result: the list of valid candidates, or
\* the exit taken because there is none
Searched ==
  /\ kind = "find-colony-candidates"
  /\ pc = "done" \/ (pc = "aborted" /\ colony.exit_call = "sys.exit(0)")

FactionIds == { colony.faction_systems[k].system.id64 : k \in DOMAIN colony.faction_systems }
Valid == colony.valid_candidates
Unclaimed(i) == population_data[i] = None \/ population_data[i].controllingFaction = ""
Dist2(i, j) == DistSq(systems[i], systems[j].x, systems[j].y, systems[j].z)
InReach(i, f) == Dist2(i, f) <= colony.candidate_range * colony.candidate_range

\* C6 (as claimed): whatever the faction name, no valid candidate has a
\* non-empty controlling faction and none is a faction system of the search.
C6_CandidatesExcluded ==
  Searched =>
    \A k \in DOMAIN Valid :
      /\ Valid[k].population = None \/ Valid[k].population.controllingFaction = ""
      /\ Unclaimed(Valid[k].system.id64)
      /\ Valid[k].system.id64 \notin FactionIds

\* C7 (as claimed): the valid candidates are, once each, the unclaimed stored
\* systems within candidate_range of a faction system, each with its least
\* distance to a faction system and a faction system at that distance.
C7_CandidatesExact ==
  Searched =>
    LET expected == { i \in Ids : /\ systems[i] # None
                                  /\ Unclaimed(i)
                                  /\ \E f \in FactionIds : InReach(i, f) }
    IN  /\ { Valid[k].system.id64 : k \in DOMAIN Valid } = expected
        /\ Len(Valid) = Cardinality(expected)
        /\ \A k \in DOMAIN Valid :
             LET c == Valid[k].system.id64
             IN  /\ Valid[k].faction_id \in FactionIds
                 /\ Dist2(c, Valid[k].faction_id) = Valid[k].dist
                 /\ \A f \in FactionIds : Valid[k].dist <= Dist2(c, f)

\* g is the bucket of coordinate v: GRID * g <= v < GRID * (g + 1)
IsBucketOf(g, v) == GRID * g <= v /\ v < GRID * (g + 1)

RowBucketOK(row) ==
  row # None =>
    /\ IsBucketOf(row.grid_x, row.x)
    /\ IsBucketOf(row.grid_y, row.y)
    /\ IsBucketOf(row.grid_z, row.z)

\* C8: every row of systems (as seen by the connection and as committed)
\* carries the bucket floor(x/25), floor(y/25), floor(z/25) of its own
\* coordinates.
C8_BucketOfCoordinates ==
  \A i \in Ids : RowBucketOK(systems[i]) /\ RowBucketOK(committed.systems[i])

C8_Witness ==
  /\ systems[1] # None /\ committed.systems[1] # None
  /\ committed.systems[1].x = 0 /\ committed.systems[1].grid_z = 0
  /\ systems[1].x = -1 /\ systems[1].grid_x = -1 /\ systems[1].grid_y = 1
  /\ systems[1].grid_z = -2

\* the positions of the stream whose item carries id64 = i
ItemsOf(i) == { k \in 1..Len(stream) : Has(stream[k], "id64") /\ stream[k].id64 = i }
Upserted(k) == IF kind = "systems" THEN TRUE ELSE ~PopSkipped(stream[k])
UpsertedItemsOf(i) == { k \in ItemsOf(i) : Upserted(k) }
Last(S) == CHOOSE k \in S : \A j \in S : j <= k
Table == IF kind = "systems" THEN systems ELSE population_data
RowOf(obj) == IF kind = "systems" THEN SystemRow(obj) ELSE PopulationRow(obj)

Idempotent ==
  (Ingested /\ before # None) =>
    systems = before.systems /\ population_data = before.population_data

\* C9 (as claimed): ingesting a snapshot again leaves both tables as they
\* were, and after an ingestion of a stream with several items of one id64
\* the row of that id64 is the last of them in stream order.
C9_LastItemRemains ==
  /\ Idempotent
  /\ Ingested =>
        \A i \in Ids : Cardinality(ItemsOf(i)) >= 2 =>
          /\ Upserted(Last(ItemsOf(i)))
          /\ Table[i] = RowOf(stream[Last(ItemsOf(i))])

\* C9 (amended): ingesting a snapshot again leaves both tables as they were,
\* and after an ingestion the row of an id64 is the last item of the stream
\* that carries that id64 and was upserted (not skipped as unpopulated).
C9_LastUpsertRemains ==
  /\ Idempotent
  /\ Ingested =>
        \A i \in Ids : UpsertedItemsOf(i) # {} =>
          Table[i] = RowOf(stream[Last(UpsertedItemsOf(i))])

C9_Witness ==
  /\ Ingested /\ before # None /\ kind = "population"
  /\ Len(stream) = 2
  /\ ItemsOf(1) = {1, 2} /\ UpsertedItemsOf(1) = {1, 2}
  /\ stream[1] # stream[2]
  /\ population_data[1] = PopulationRow(stream[2])

\* C10 (as claimed): no ingestion is ended by an item that lacks a required
\* field; such an item is skipped.
C10_MalformedSkipped == ~(pc = "aborted" /\ raised = "KeyError")

\* the should_commit calls of the running ingestion that returned True
Signalled == { i \in 1..Len(returns) : returns[i] # "no" }

\* the ingestion was ended by a failure of the source stream
StreamAborted == pc = "aborted" /\ raised = "IOError"

\* C11: a failure of the source stream ends either ingestion with the error
\* raised to the caller: the step neither prints a per-record error nor
\* consumes an item nor issues a statement; the log holds no ANALYZE and no
\* commit beyond those the tracker signalled; the committed tables stay as the
\* last commit point left them and the in-flight upserts are gone.  The
\* committed tables change only in a step that issues a COMMIT.
C11_StreamFailurePropagates ==
  /\ [](StreamAborted =>
          /\ kind \in {"systems", "population"}
          /\ Positions("ANALYZE") = {}
          /\ Cardinality(Positions("COMMIT")) = Cardinality(Signalled)
          /\ ~in_txn
          /\ systems = committed.systems
          /\ population_data = committed.population_data)
  /\ [][ /\ (raised # "IOError" /\ raised' = "IOError") =>
              /\ pc = "running" /\ pc' = "aborted"
              /\ committed' = committed
              /\ db_log' = db_log /\ stderr' = stderr /\ pos' = pos
         /\ (committed' # committed) =>
              /\ pc = "running"
              /\ \E i \in (Len(db_log) + 1)..Len(db_log') : db_log'[i] = "COMMIT" ]_vars

\* the population stream fails after an upsert that no commit followed: the
\* row is not in the table
C11_Witness ==
  /\ StreamAborted /\ kind = "population"
  /\ pos = 1 /\ db_log = <<"BEGIN", "INSERT">>
  /\ population_data[stream[1].id64] = None

\* the record's population is missing or zero, or its primary economy is
\* missing or empty
Unpopulated(obj) ==
  \/ ~Has(obj, "population") \/ obj.population = 0
  \/ ~Has(obj, "primaryEconomy") \/ obj.primaryEconomy = ""

\* the step consumes record obj of the population stream
Consumes(obj) ==
  /\ pc = "running" /\ kind = "population" /\ pos < Len(stream)
  /\ pos' = pos + 1
  /\ stream[pos + 1] = obj

\* nothing but the position in the stream changes
SkippedSilently ==
  /\ UNCHANGED <<tracker, returns, systems, population_data, committed, in_txn, db_log>>
  /\ stderr' = stderr
  /\ pc' = "running" /\ raised' = ""

\* C12 (as claimed): a step of the population ingestion that consumes a record
\* whose population is missing or zero, or whose primary economy is missing or
\* empty, changes neither table nor the tracker, issues no statement, reports
\* no error, and the ingestion goes on.
C12_UnpopulatedSkipped ==
  [][ \A obj \in PopObjs : (Consumes(obj) /\ Unpopulated(obj)) => SkippedSilently ]_vars

\* C12 (amended): the same for a record that carries an id64; a record
\* without id64 is reported as an erroneous record whatever its population.
C12_UnpopulatedWithIdSkipped ==
  [][ \A obj \in PopObjs :
        /\ (Consumes(obj) /\ Unpopulated(obj) /\ Has(obj, "id64")) => SkippedSilently
        /\ (Consumes(obj) /\ ~Has(obj, "id64")) => stderr' = stderr + 1 ]_vars

\* the first record of the stream was skipped as unpopulated while a row of
\* its id64 was stored: the row is still there and the tracker has counted
\* nothing
C12_Witness ==
  /\ kind = "population" /\ pc = "running" /\ pos = 1
  /\ Has(stream[1], "id64") /\ Unpopulated(stream[1])
  /\ population_data[stream[1].id64] # None
  /\ tracker.total_count = 0 /\ db_log = <<"BEGIN">> /\ stderr = 0

\* find_colony_candidates has ended, by returning or by an exception
ColonyEnded == kind = "find-colony-candidates" /\ pc \in {"done", "aborted"}

\* no stored system bears the name given with --from
RefMissing ==
  /\ args.reference_system # ""
  /\ \A i \in Ids : systems[i] = None \/ systems[i].name # args.reference_system

\* the search was given its ranges (with --from the reference range is
\* required)
RangesGiven == args.reference_system = "" \/ args.ranges # << >>

\* C13 (as claimed): a search whose reference system does not exist, or that
\* finds no faction system, ends with the error exit SystemExit(1) and has
\* scanned no candidate.
C13_FailFast ==
  (ColonyEnded /\ RangesGiven /\ (RefMissing \/ colony.faction_systems = << >>)) =>
    /\ pc = "aborted" /\ raised = "SystemExit(1)"
    /\ colony.candidate_info = EmptyDict

\* C14 (as claimed): a search that has faction systems and ends without a
\* valid candidate ends with the normal exit SystemExit(0), never with another
\* exception.
C14_CleanExit ==
  (ColonyEnded /\ colony.faction_systems # << >> /\ colony.valid_candidates = << >>) =>
    /\ pc = "aborted" /\ raised = "SystemExit(0)"

\* the whole-store copy of a restore or a dump raised a storage error
CopyFailed == kind \in {"restore", "dump"} /\ args.outcome # "ok"

\* C15 (as claimed): a storage error raised during a restore or a dump ends
\* the operation with that error raised to the caller, and no command is
\* served by a store whose restore failed.
C15_CopyErrorPropagates ==
  /\ [](CopyFailed => (pc = "aborted" /\ raised = args.outcome))
  /\ [][ (CopyFailed /\ kind = "restore") => kind' \in {"restore", ""} ]_vars

\* C16 (as claimed): in every state of a tracker, from its construction on,
\* min_time_check_batch <= time_check_batch <= max_time_check_batch.
C16_TimeCheckBatchBounded ==
  tracker # None =>
    /\ tracker.min_time_check_batch <= tracker.time_check_batch
    /\ tracker.time_check_batch <= tracker.max_time_check_batch

\* an explicitly opened transaction is open after the first n statements of
\* the log
RECURSIVE OpenAfter(_)
OpenAfter(n) ==
  IF n = 0 THEN FALSE
  ELSE IF db_log[n] = "BEGIN" THEN TRUE
  ELSE IF db_log[n] = "COMMIT" THEN FALSE
  ELSE OpenAfter(n - 1)

\* the commits of the log the tracker signalled: all of them while the loop
\* runs, all but the two of the tail once the operation has returned
LoopCommits ==
  IF pc = "done" THEN { i \in Positions("COMMIT") : i < Len(db_log) - 2 }
  ELSE Positions("COMMIT")

\* C17: in the log of an ingestion, whatever the stream, every upsert is
\* issued while a transaction opened by BEGIN is open, BEGIN is never issued
\* while one is open, and each commit the tracker signalled is immediately
\* followed by BEGIN; there is one such commit per true should_commit.
C17_TransactionDiscipline ==
  (kind \in {"systems", "population"} /\ pc \in {"running", "done", "aborted"}) =>
    /\ db_log[1] = "BEGIN"
    /\ \A i \in Positions("INSERT") : OpenAfter(i - 1)
    /\ \A i \in Positions("BEGIN") : ~OpenAfter(i - 1)
    /\ \A i \in LoopCommits : i < Len(db_log) /\ db_log[i + 1] = "BEGIN"
    /\ Cardinality(LoopCommits) = Cardinality(Signalled)
    /\ pc # "aborted" => in_txn = OpenAfter(Len(db_log))

\* the last record of the stream triggered a commit
C17_Witness ==
  /\ Ingested
  /\ db_log = <<"BEGIN", "INSERT", "INSERT", "COMMIT", "BEGIN", "COMMIT", "ANALYZE", "COMMIT">>

\* the id64 present in a table
IdsOf(table) == { i \in Ids : table[i] # None }

\* C18: no step of an ingestion removes an id64 from the committed systems or
\* population_data table, and no step but an abort (which rolls back the
\* uncommitted upserts) removes one from the tables the connection sees.
C18_NeverPurged ==
  [][ /\ IdsOf(committed.systems) \subseteq IdsOf(committed.systems')
      /\ IdsOf(committed.population_data) \subseteq IdsOf(committed.population_data')
      /\ pc' # "aborted" =>
            /\ IdsOf(systems) \subseteq IdsOf(systems')
            /\ IdsOf(population_data) \subseteq IdsOf(population_data') ]_vars

\* a population snapshot that only carries an unpopulated record of id64 1
\* has been ingested and the row of id64 1 is still stored, next to one of
\* id64 2 that the snapshot omits
C18_Witness ==
  /\ Ingested /\ kind = "population"
  /\ Len(stream) = 1 /\ Has(stream[1], "id64") /\ stream[1].id64 = 1
  /\ PopSkipped(stream[1])
  /\ committed.population_data[1] # None /\ committed.population_data[2] # None

\* the colony search has determined its faction systems: it was given its
\* ranges and its reference system, if any, exists
FactionSystemsDetermined ==
  /\ kind = "find-colony-candidates" /\ pc \in {"scanned", "done", "aborted"}
  /\ RangesGiven /\ ~RefMissing

\* the population row of system i matches the faction name of the search
ControlledBySearched(i) ==
  /\ population_data[i] # None
  /\ IF args.faction_name = "ANY" THEN population_data[i].controllingFaction # ""
     ELSE population_data[i].controllingFaction = args.faction_name

\* the stored systems that match, everywhere in the store
MatchingAnywhere == { i \in Ids : systems[i] # None /\ ControlledBySearched(i) }

\* the stored systems within the reference range of stored system r
NearRef(r) ==
  { i \in Ids : /\ systems[i] # None
                /\ DistSq(systems[i], systems[r].x, systems[r].y, systems[r].z)
                     <= args.ranges[1] * args.ranges[1] }

\* C19: the faction systems of a search are, once each and with their
\* population row: with a reference system, the matching systems within the
\* reference range of it; without one, all matching systems that have a
\* systems row.  When the reference range covers every stored system, the two
\* are the same set.
C19_FactionSystems ==
  FactionSystemsDetermined =>
    /\ Len(colony.faction_systems) = Cardinality(FactionIds)
    /\ \A k \in DOMAIN colony.faction_systems :
         LET e == colony.faction_systems[k]
         IN  /\ e.system = SystemData(systems[e.system.id64])
             /\ e.population = population_data[e.system.id64]
    /\ IF args.reference_system = ""
       THEN FactionIds = MatchingAnywhere
       ELSE \E r \in Ids :
              /\ systems[r] # None /\ systems[r].name = args.reference_system
              /\ FactionIds = MatchingAnywhere \cap NearRef(r)
              /\ NearRef(r) = IdsOf(systems) => FactionIds = MatchingAnywhere

\* a search for faction X from S1 whose reference range leaves out a system
\* of X and takes in another
C19_Witness ==
  /\ FactionSystemsDetermined
  /\ args.faction_name = "X" /\ args.reference_system = "S1"
  /\ FactionIds = {1}
  /\ MatchingAnywhere = {1, 3}

\* the colony search has scanned the surroundings of its faction systems
Scanned ==
  /\ kind = "find-colony-candidates" /\ pc \in {"scanned", "done", "aborted"}
  /\ colony.faction_systems # << >>

\* candidate_info as it is once the first n faction systems have been
\* processed, the engine returning rows in the given order
InfoAfter(order, n) ==
  ScanFactionSystems(EmptyDict, order, SubSeq(colony.faction_systems, 1, n),
                     colony.candidate_range, 1)

\* the faction systems, by position in the enumeration, that have candidate c
\* in reach and are not c itself
InReachOf(c) ==
  { k \in DOMAIN colony.faction_systems :
      /\ colony.faction_systems[k].system.id64 # c
      /\ InReach(c, colony.faction_systems[k].system.id64) }

\* C20: while the faction systems are processed in enumeration order, the
\* entry of a candidate is replaced only by a strictly smaller distance (so
\* its distance never increases), and the entry left at the end is that of
\* the first faction system in enumeration order among those at the least
\* distance.
C20_ReplacedOnlyWhenCloser ==
  Scanned =>
    /\ \E order \in ScanOrders :
         /\ colony.candidate_info = InfoAfter(order, Len(colony.faction_systems))
         /\ \A n \in 1..Len(colony.faction_systems), c \in Ids :
              LET old == DictGet(InfoAfter(order, n - 1), c)
                  new == DictGet(InfoAfter(order, n), c)
                  f == colony.faction_systems[n].system.id64
              IN  /\ old # None => (new # None /\ new.dist <= old.dist)
                  /\ (old # None /\ new # old) => new.dist < old.dist
                  /\ new # old => (new.faction_id = f /\ new.dist = Dist2(c, f))
    /\ \A c \in Ids :
         LET entry == DictGet(colony.candidate_info, c)
             first == CHOOSE k \in InReachOf(c) :
                        \A j \in InReachOf(c) :
                          LET dk == Dist2(c, colony.faction_systems[k].system.id64)
                              dj == Dist2(c, colony.faction_systems[j].system.id64)
                          IN  dk < dj \/ (dk = dj /\ k <= j)
         IN  entry # None =>
               /\ InReachOf(c) # {}
               /\ entry.faction_id = colony.faction_systems[first].system.id64
               /\ entry.dist = Dist2(c, entry.faction_id)

\* candidate 2 is as far (5 light years) from faction system 3, enumerated
\* first, as from faction system 1, enumerated second: 3 is recorded
C20_Witness ==
  /\ Scanned
  /\ Len(colony.faction_systems) = 2
  /\ colony.faction_systems[1].system.id64 = 3 /\ colony.faction_systems[2].system.id64 = 1
  /\ DictGet(colony.candidate_info, 2) = [dist |-> 25, faction_id |-> 3]
  /\ Dist2(2, 1) = 25 /\ Dist2(2, 3) = 25

\* the id64 of the entries of a list of valid candidates
CandidateIds(valid) == { valid[k].system.id64 : k \in DOMAIN valid }

\* the scans recorded system c as an unclaimed candidate
Recorded(c) == DictGet(colony.candidate_info, c) # None

\* C21: at the step that makes the final population read and filters, a
\* recorded candidate whose population row, as a writer has committed it by
\* then, names a controlling faction is not a valid candidate; every valid
\* candidate was recorded, has a systems row, carries the population row just
\* read, and that row is absent or without controlling faction.
C21_ReverifiedAtFinalRead ==
  [][ (pc = "verifying" /\ pc' \in {"done", "aborted"}) =>
        LET valid == colony'.valid_candidates
        IN  /\ \A c \in Ids :
                 (/\ Recorded(c)
                  /\ population_data[c] # None
                  /\ population_data[c].controllingFaction # "") =>
                    c \notin CandidateIds(valid)
            /\ \A k \in DOMAIN valid :
                 LET c == valid[k].system.id64
                 IN  /\ Recorded(c)
                     /\ systems[c] # None
                     /\ valid[k].system = SystemData(systems[c])
                     /\ valid[k].population = population_data[c]
                     /\ Unclaimed(c)
            /\ pc' = "done" <=> valid # << >> ]_vars

\* the search has returned candidates, and a system its scans had recorded
\* as unclaimed, claimed by a writer since, is not among them
C21_Witness ==
  /\ kind = "find-colony-candidates" /\ pc = "done"
  /\ \E c \in Ids :
       /\ Recorded(c)
       /\ population_data[c] # None /\ population_data[c].controllingFaction # ""
       /\ c \notin CandidateIds(colony.valid_candidates)

\* the step is a should_commit call that returned True
CommitStep ==
  /\ tracker # None
  /\ Len(returns') = Len(returns) + 1
  /\ returns'[Len(returns')] # "no"

\* what the commit measures: the time since the last commit at the clock
\* reading it takes, and the records counted since then
ElapsedAtCommit == now' - tracker.last_commit_time
RecordsAtCommit == tracker.total_count + 1 - tracker.last_commit_total

\* clamp(v, lo, hi) of a rational between integers
Clamp(v, lo, hi) ==
  IF RatLess(v, RatOfInt(lo)) THEN RatOfInt(lo)
  ELSE IF RatLess(RatOfInt(hi), v) THEN RatOfInt(hi)
  ELSE v

\* emaRate after a sample of currentRate = records / elapsed
EmaAfterSample ==
  LET currentRate == Rat(RecordsAtCommit, ElapsedAtCommit)
  IN  IF tracker.ema_rate = NoRate THEN currentRate
      ELSE RatAdd(RatMul(Rat(SmoothNum, SmoothDen), currentRate),
                  RatMul(Rat(SmoothDen - SmoothNum, SmoothDen), tracker.ema_rate))

\* the commit has taken its sample: emaRate and time_check_batch follow it
Resampled ==
  /\ tracker'.ema_rate = EmaAfterSample
  /\ tracker'.time_check_batch =
       PyRound(Clamp(RatMul(EmaAfterSample, RatOfInt(tracker.time_interval)),
                     tracker.min_time_check_batch, tracker.max_time_check_batch))

\* the counters of the commit interval are reset
IntervalReset ==
  /\ tracker'.last_commit_time = now'
  /\ tracker'.last_commit_total = tracker'.total_count
  /\ tracker'.records_since_time_check = 0

\* C22 (as claimed): every commit, whatever the clock reads, resets the
\* interval counters and leaves emaRate updated by a sample; when time has
\* passed the sample is records / elapsed.
C22_EveryCommitResamples ==
  [][ CommitStep =>
        /\ IntervalReset
        /\ tracker'.ema_rate # NoRate
        /\ ElapsedAtCommit > 0 => Resampled ]_vars

\* C22 (amended): every commit resets the interval counters; a commit at
\* which the measured elapsed time is positive updates emaRate by the sample
\* records / elapsed and sets time_check_batch from it; a commit at which it
\* is zero leaves emaRate and time_check_batch as they were.
C22_CommitResamplesWhenTimePassed ==
  [][ CommitStep =>
        /\ IntervalReset
        /\ IF ElapsedAtCommit > 0 THEN Resampled
           ELSE /\ tracker'.ema_rate = tracker.ema_rate
                /\ tracker'.time_check_batch = tracker.time_check_batch ]_vars

\* a count-triggered and a time-triggered commit have happened, the average
\* mixes two different samples and time_check_batch lies strictly between
\* its bounds
C22_Witness ==
  /\ tracker # None
  /\ \E i, j \in 1..Len(returns) : returns[i] = "count" /\ returns[j] = "time"
  /\ tracker.ema_rate # NoRate /\ tracker.ema_rate[2] = 10
  /\ tracker.min_time_check_batch = 1 /\ tracker.max_time_check_batch = 3
  /\ tracker.time_check_batch = 2

\* records counted since the last commit
SinceCommit(tr) == tr.total_count - tr.last_commit_total

\* C23: with batch_size = B > 0, a should_commit call never counts more than
\* B records since the last commit (the record of the call included), and
\* the count it leaves behind is below B, so that the next record cannot
\* exceed B either; this holds whatever mix of count-triggered and
\* time-triggered commits came before.
C23_OpenBatchBounded ==
  [][ (tracker # None /\ tracker.batch_size > 0 /\ Len(returns') = Len(returns) + 1) =>
        /\ RecordsAtCommit <= tracker.batch_size
        /\ SinceCommit(tracker') < tracker.batch_size
        /\ returns'[Len(returns')] = "no" => SinceCommit(tracker') = RecordsAtCommit
        /\ returns'[Len(returns')] # "no" => SinceCommit(tracker') = 0 ]_vars

\* with B = 3, a time-triggered commit and then, one record later, a
\* count-triggered commit
C23_Witness ==
  /\ tracker # None /\ tracker.batch_size = 3
  /\ Len(returns) >= 2
  /\ returns[Len(returns) - 1] = "time"
  /\ returns[Len(returns)] = "count"

====
